---- MODULE Spec2Model ----
(***************************************************************************)
(* Model of the ICE candidate base (src/candidate/candidate_base.rs):      *)
(* the candidate lifecycle (close, write_to, seen), the per-candidate      *)
(* receive pump (recv_loop / handle_inbound_candidate_msg) that feeds the  *)
(* agent shared by all candidates, the pure functions priority,            *)
(* local_preference, foundation, marshal and equal, and the string forms   *)
(* of the agent's states (src/state/state_test.rs).                        *)
(***************************************************************************)
EXTENDS Integers, Sequences, FiniteSets, TLC

(***************************************************************************)
(* Bounds of the model.                                                    *)
(***************************************************************************)
\* close() calls issued per candidate
MaxCloses == 2
\* datagrams each packet connection yields
MaxRecv == 3
\* capacity of the agent's delivery buffer, in packets
MaxBuf == 1
\* write_to calls issued per candidate
MaxWrites == 1
\* largest reading of the system clock
MaxTime == 1

\* The candidates of one agent: each owns its close channel and its pump.
Cands == {"c1", "c2"}

\* The candidate whose whole lifecycle Spec follows; the other stays as
\* constructed.
Studied == {"c1"}

\* The optional fields of the candidates in S; the others have none.
Options(S) == {f \in [Cands -> BOOLEAN] : \A c \in Cands \ S : ~f[c]}

\* What a packet connection can yield: a STUN message that decodes, bytes
\* that pass is_message but fail decode, and application data from the
\* selected remote or from another source.
Kinds == {"stun_ok", "stun_bad", "data_ok", "data_bad"}

\* Readings of SystemTime::now() in nanoseconds since the epoch (0 when the
\* clock stands before the epoch).
Times == 0..MaxTime

VARIABLES
    conn,           \* [Cands -> BOOLEAN]: the candidate has a packet connection
    relay_client,   \* [Cands -> BOOLEAN]: the candidate owns a TURN client
    initialized_ch, \* [Cands -> BOOLEAN]: the pump is given an initialized channel
    started,        \* [Cands -> BOOLEAN]: the agent has started the candidate
    closed_ch,      \* [Cands -> {"None","Some"}]: the broadcast sender
    closeRes,       \* [Cands -> Seq]: results of the close() calls, in lock order
    turnCloses,     \* [Cands -> Nat]: calls of relay_client.close()
    pumpAtClose,    \* [Cands -> pump location when close() took the sender]
    pumpPc,         \* [Cands -> pump location]
    pumpRes,        \* [Cands -> result of recv_loop]
    cur,            \* [Cands -> Kinds \cup {"none"}]: datagram being dispatched
    plog,           \* [Cands -> Seq of <<kind, outcome>>]: datagrams, in arrival order
    agent_internal, \* holder of the agent mutex: "free" or a candidate
    buffer,         \* the agent's delivery buffer: Seq of <<candidate, arrival number>>
    stunHandled,    \* Seq of <<candidate, arrival number>> given to handle_inbound
    writes,         \* [Cands -> Nat]: write_to calls made
    sends,          \* [Cands -> Nat]: send_to calls issued on the connection
    lateSends,      \* [Cands -> Nat]: send_to calls issued after a close() returned Ok
    last_sent,      \* [Cands -> Times]
    last_received,  \* [Cands -> Times]
    connection_state, \* the agent's ConnectionState, as its discriminant
    gathering_state,  \* the agent's GatheringState, as its discriminant
    cand,           \* [Slots -> the value fields of two candidates]
    res             \* the last call of a pure method and what it returned

\* The agent's two states; no operation of a candidate writes them.
stateVars == <<connection_state, gathering_state>>
cfgVars == <<conn, relay_client, initialized_ch, stateVars>>
closeVars == <<started, closed_ch, closeRes, turnCloses, pumpAtClose>>
pumpVars == <<pumpPc, pumpRes, cur, plog>>
agentVars == <<agent_internal, buffer, stunHandled>>
sendVars == <<writes, sends, lateSends>>
seenVars == <<last_sent, last_received>>
lifecycleVars == <<cfgVars, closeVars, pumpVars, agentVars, sendVars, seenVars>>
valueVars == <<cand, res>>
vars == <<lifecycleVars, valueVars>>

(***************************************************************************)
(* Construction: CandidateBase::default() plus the optional fields of the  *)
(* configuration.                                                          *)
(***************************************************************************)
\* The value fields as CandidateBase::default() sets them.
DefaultCandidate ==
    [ id |-> "",
      candidate_type |-> "Unspecified",
      network_type |-> "unspecified",
      tcp_type |-> "Unspecified",
      component |-> 0,
      address |-> <<>>,
      port |-> 0,
      related_address |-> [present |-> FALSE, address |-> <<>>, port |-> 0],
      network |-> "",
      resolved_addr |-> [ip |-> "0.0.0.0", port |-> 0],
      foundation_override |-> <<>>,
      priority_override |-> 0 ]

\* Two candidates are held side by side, to compare what they return.
Slots == {1, 2}

\* The connection, close channel, pump and timestamps of candidates whose
\* optional fields are set only in S.
LifecycleInit(S) ==
    /\ conn \in Options(S)
    /\ relay_client \in Options(S)
    /\ initialized_ch \in Options(S)
    /\ started = [c \in Cands |-> FALSE]
    /\ closed_ch = [c \in Cands |-> "None"]
    /\ closeRes = [c \in Cands |-> <<>>]
    /\ turnCloses = [c \in Cands |-> 0]
    /\ pumpAtClose = [c \in Cands |-> "unset"]
    /\ pumpPc = [c \in Cands |-> "none"]
    /\ pumpRes = [c \in Cands |-> "none"]
    /\ cur = [c \in Cands |-> "none"]
    /\ plog = [c \in Cands |-> <<>>]
    /\ agent_internal = "free"
    /\ buffer = <<>>
    /\ stunHandled = <<>>
    /\ writes = [c \in Cands |-> 0]
    /\ sends = [c \in Cands |-> 0]
    /\ lateSends = [c \in Cands |-> 0]
    /\ last_sent = [c \in Cands |-> 0]
    /\ last_received = [c \in Cands |-> 0]
    /\ connection_state = 1
    /\ gathering_state = 1

Init ==
    /\ LifecycleInit(Studied)
    /\ cand = [i \in Slots |-> DefaultCandidate]
    /\ res = [op |-> "none"]

(***************************************************************************)
(* The agent starts a candidate: it creates the close channel, stores the  *)
(* sender in closed_ch and, when the candidate has a packet connection,    *)
(* spawns recv_loop with the receiver.                                     *)
(***************************************************************************)
start_candidate(c) ==
    /\ ~started[c]
    /\ started' = [started EXCEPT ![c] = TRUE]
    /\ closed_ch' = [closed_ch EXCEPT ![c] = "Some"]
    /\ pumpPc' = [pumpPc EXCEPT ![c] =
                    IF conn[c]
                    THEN (IF initialized_ch[c] THEN "init_wait" ELSE "select")
                    ELSE "none"]
    /\ UNCHANGED <<valueVars, cfgVars, closeRes, turnCloses, pumpAtClose, pumpRes, cur,
                   plog, agentVars, sendVars, seenVars>>

(***************************************************************************)
(* close(): under the closed_ch mutex, fail with Closed when the sender is *)
(* gone, else take it (dropping it wakes every receiver); then close the   *)
(* TURN client if there is one.                                            *)
(***************************************************************************)
\* The outcome of the locked section of close(): the result recorded for
\* the call ("Pending" while relay_client.close() is awaited).
closeTake(c) ==
    IF closed_ch[c] = "None" THEN "Closed"
    ELSE IF relay_client[c] THEN "Pending"
    ELSE "Ok"

close(c) ==
    /\ Len(closeRes[c]) < MaxCloses
    /\ closeRes' = [closeRes EXCEPT ![c] = Append(@, closeTake(c))]
    /\ closed_ch' = [closed_ch EXCEPT ![c] = "None"]
    /\ pumpAtClose' = IF closed_ch[c] = "Some"
                      THEN [pumpAtClose EXCEPT ![c] = pumpPc[c]]
                      ELSE pumpAtClose
    /\ UNCHANGED <<valueVars, cfgVars, started, turnCloses, pumpVars, agentVars,
                   sendVars, seenVars>>

\* relay_client.close().await of the call that took the sender; the TURN
\* client's close reports success.
relayClose(c) ==
    \E i \in DOMAIN closeRes[c] :
        /\ closeRes[c][i] = "Pending"
        /\ turnCloses' = [turnCloses EXCEPT ![c] = @ + 1]
        /\ closeRes' = [closeRes EXCEPT ![c][i] = "Ok"]
        /\ UNCHANGED <<valueVars, cfgVars, started, closed_ch, pumpAtClose, pumpVars,
                       agentVars, sendVars, seenVars>>

\* The close signal as a receiver sees it: closed_ch_rx.recv() completes
\* once the sender has been dropped.
closeSignalled(c) == started[c] /\ closed_ch[c] = "None"

\* Some close() on c has returned Ok.
closeReturnedOk(c) == \E i \in DOMAIN closeRes[c] : closeRes[c][i] = "Ok"

(***************************************************************************)
(* recv_loop.                                                              *)
(***************************************************************************)
\* select!: initialized_ch.recv() completes.
recvInitialized(c) ==
    /\ pumpPc[c] = "init_wait"
    /\ pumpPc' = [pumpPc EXCEPT ![c] = "select"]
    /\ UNCHANGED <<valueVars, cfgVars, closeVars, pumpRes, cur, plog, agentVars,
                   sendVars, seenVars>>

selectPoints_initOnly == {"init_wait"}

\* The locations at which the pump selects against closed_ch_rx.recv().
selectPoints == {"init_wait", "select"}

\* select!: closed_ch_rx.recv() completes: return Err(ERR_CLOSED).
recvClosed(c) ==
    /\ pumpPc[c] \in selectPoints
    /\ closeSignalled(c)
    /\ pumpPc' = [pumpPc EXCEPT ![c] = "done"]
    /\ pumpRes' = [pumpRes EXCEPT ![c] = "Closed"]
    /\ UNCHANGED <<valueVars, cfgVars, closeVars, cur, plog, agentVars, sendVars,
                   seenVars>>

\* select!: conn.recv_from fails: return the error.
recvErr(c) ==
    /\ pumpPc[c] = "select"
    /\ pumpPc' = [pumpPc EXCEPT ![c] = "done"]
    /\ pumpRes' = [pumpRes EXCEPT ![c] = "Io"]
    /\ UNCHANGED <<valueVars, cfgVars, closeVars, cur, plog, agentVars, sendVars,
                   seenVars>>

\* Datagrams the pump has taken from recv_from so far.
arrivals(c) == Len(plog[c]) + (IF cur[c] = "none" THEN 0 ELSE 1)

dispatchTo_detached(k) ==
    CASE k \in {"stun_ok", "stun_bad"} -> "select"
      [] OTHER -> "data_lock"

dispatchTo_handlesUndecoded(k) ==
    CASE k \in {"stun_ok", "stun_bad"} -> "stun_lock"
      [] OTHER -> "data_lock"

\* Where handle_inbound_candidate_msg first suspends for a datagram of
\* kind k: is_message and decode run without suspending.
dispatchTo(k) ==
    CASE k = "stun_ok" -> "stun_lock"
      [] k = "stun_bad" -> "select"
      [] OTHER -> "data_lock"

\* select!: conn.recv_from yields a datagram of kind k, and
\* handle_inbound_candidate_msg runs up to its first lock().await; a STUN
\* message that fails to decode is logged and the loop goes on.
recvFrom(c, k) ==
    /\ pumpPc[c] = "select"
    /\ arrivals(c) < MaxRecv
    /\ pumpPc' = [pumpPc EXCEPT ![c] = dispatchTo(k)]
    /\ IF dispatchTo(k) = "select"
       THEN /\ plog' = [plog EXCEPT ![c] = Append(@, <<k, "undecodable">>)]
            /\ cur' = cur
       ELSE /\ cur' = [cur EXCEPT ![c] = k]
            /\ plog' = plog
    /\ UNCHANGED <<valueVars, cfgVars, closeVars, pumpRes, agentVars, sendVars, seenVars>>

lockAgent_unguarded(c) ==
    /\ pumpPc[c] \in {"stun_lock", "data_lock"}
    /\ agent_internal' = c
    /\ pumpPc' = [pumpPc EXCEPT ![c] =
                    IF @ = "stun_lock" THEN "stun_handle" ELSE "data_validate"]
    /\ UNCHANGED <<valueVars, cfgVars, closeVars, pumpRes, cur, plog, buffer,
                   stunHandled, sendVars, seenVars>>

\* agent_internal.lock().await completes.
lockAgent(c) ==
    /\ pumpPc[c] \in {"stun_lock", "data_lock"}
    /\ agent_internal = "free"
    /\ agent_internal' = c
    /\ pumpPc' = [pumpPc EXCEPT ![c] =
                    IF @ = "stun_lock" THEN "stun_handle" ELSE "data_validate"]
    /\ UNCHANGED <<valueVars, cfgVars, closeVars, pumpRes, cur, plog, buffer,
                   stunHandled, sendVars, seenVars>>

handleInbound_keepsLock(c) ==
    /\ pumpPc[c] = "stun_handle"
    /\ stunHandled' = Append(stunHandled, <<c, arrivals(c)>>)
    /\ plog' = [plog EXCEPT ![c] = Append(@, <<cur[c], "handled">>)]
    /\ cur' = [cur EXCEPT ![c] = "none"]
    /\ agent_internal' = agent_internal
    /\ pumpPc' = [pumpPc EXCEPT ![c] = "select"]
    /\ UNCHANGED <<valueVars, cfgVars, closeVars, pumpRes, buffer, sendVars, seenVars>>

\* ai.handle_inbound(..).await completes; the guard is dropped.
handleInbound(c) ==
    /\ pumpPc[c] = "stun_handle"
    /\ stunHandled' = Append(stunHandled, <<c, arrivals(c)>>)
    /\ plog' = [plog EXCEPT ![c] = Append(@, <<cur[c], "handled">>)]
    /\ cur' = [cur EXCEPT ![c] = "none"]
    /\ agent_internal' = "free"
    /\ pumpPc' = [pumpPc EXCEPT ![c] = "select"]
    /\ UNCHANGED <<valueVars, cfgVars, closeVars, pumpRes, buffer, sendVars, seenVars>>

\* The agent's source check for application data: the source is the remote
\* of the selected pair.
validate_non_stun_traffic(k) == k = "data_ok"

\* ai.validate_non_stun_traffic(..).await completes: a rejected datagram is
\* logged and dropped.
discards_unchecked(k) == FALSE

\* `if !ai.validate_non_stun_traffic(c, src_addr).await`: discard.
discards(k) == ~validate_non_stun_traffic(k)

validate(c) ==
    /\ pumpPc[c] = "data_validate"
    /\ IF discards(cur[c])
       THEN /\ plog' = [plog EXCEPT ![c] = Append(@, <<cur[c], "rejected">>)]
            /\ cur' = [cur EXCEPT ![c] = "none"]
            /\ agent_internal' = "free"
            /\ pumpPc' = [pumpPc EXCEPT ![c] = "select"]
       ELSE /\ pumpPc' = [pumpPc EXCEPT ![c] = "data_write"]
            /\ UNCHANGED <<plog, cur, agent_internal>>
    /\ UNCHANGED <<valueVars, cfgVars, closeVars, pumpRes, buffer, stunHandled,
                   sendVars, seenVars>>

\* The buffer accepts a packet while it has room.
bufferHasRoom == Len(buffer) < MaxBuf

\* ai.agent_conn.buffer.write(buf).await completes: a full buffer fails the
\* write, which is logged and otherwise ignored.
afterFailedWrite_returned == [pc |-> "done", res |-> "QueueFull"]

\* `else if let Err(err) = ..write(buf).await { log::warn!(..) }`: where the
\* pump goes, and with what result, after a failed write.
afterFailedWrite == [pc |-> "select", res |-> "none"]

bufferWrite(c) ==
    /\ pumpPc[c] = "data_write"
    /\ IF bufferHasRoom
       THEN /\ buffer' = Append(buffer, <<c, arrivals(c)>>)
            /\ plog' = [plog EXCEPT ![c] = Append(@, <<cur[c], "delivered">>)]
            /\ pumpPc' = [pumpPc EXCEPT ![c] = "select"]
            /\ pumpRes' = pumpRes
       ELSE /\ buffer' = buffer
            /\ plog' = [plog EXCEPT ![c] = Append(@, <<cur[c], "full">>)]
            /\ pumpPc' = [pumpPc EXCEPT ![c] = afterFailedWrite.pc]
            /\ pumpRes' = [pumpRes EXCEPT ![c] =
                             IF afterFailedWrite.res = "none"
                             THEN @ ELSE afterFailedWrite.res]
    /\ cur' = [cur EXCEPT ![c] = "none"]
    /\ agent_internal' = "free"
    /\ UNCHANGED <<valueVars, cfgVars, closeVars, stunHandled, sendVars, seenVars>>

(***************************************************************************)
(* seen and write_to.                                                      *)
(***************************************************************************)
seen_bothStamps(c, outbound, t) ==
    /\ last_sent' = [last_sent EXCEPT ![c] = t]
    /\ last_received' = [last_received EXCEPT ![c] = t]

\* seen: the time since the epoch (0 if the clock is before it) is stored
\* in last_sent or in last_received.
seen(c, outbound, t) ==
    /\ last_sent' = IF outbound THEN [last_sent EXCEPT ![c] = t] ELSE last_sent
    /\ last_received' =
          IF outbound THEN last_received ELSE [last_received EXCEPT ![c] = t]

\* What write_to returns: the error of send_to, or the number of bytes sent
\* (of a one-byte packet), 0 without a connection.
write_to_result(c, ok) ==
    IF conn[c] /\ ~ok THEN [op |-> "write_to", result |-> "Err", n |-> 0]
    ELSE [op |-> "write_to", result |-> "Ok",
          n |-> IF conn[c] THEN 1 ELSE 0]

write_to_seenFirst(c, ok, t) ==
    /\ writes[c] < MaxWrites
    /\ writes' = [writes EXCEPT ![c] = @ + 1]
    /\ sends' = [sends EXCEPT ![c] = IF conn[c] THEN @ + 1 ELSE @]
    /\ lateSends' = [lateSends EXCEPT ![c] =
                       IF conn[c] /\ closeReturnedOk(c) THEN @ + 1 ELSE @]
    /\ seen(c, TRUE, t)
    /\ res' = write_to_result(c, ok)
    /\ UNCHANGED <<cand, cfgVars, closeVars, pumpVars, agentVars>>

\* write_to: send on the connection if there is one (an error returns
\* early), then seen(true).
write_to(c, ok, t) ==
    /\ writes[c] < MaxWrites
    /\ writes' = [writes EXCEPT ![c] = @ + 1]
    /\ sends' = [sends EXCEPT ![c] = IF conn[c] THEN @ + 1 ELSE @]
    /\ lateSends' = [lateSends EXCEPT ![c] =
                       IF conn[c] /\ closeReturnedOk(c) THEN @ + 1 ELSE @]
    /\ IF conn[c] /\ ~ok
       THEN UNCHANGED seenVars
       ELSE seen(c, TRUE, t)
    /\ res' = write_to_result(c, ok)
    /\ UNCHANGED <<cand, cfgVars, closeVars, pumpVars, agentVars>>

\* seen(outbound) called from outside the candidate.
seenCall(c, outbound, t) ==
    /\ seen(c, outbound, t)
    /\ UNCHANGED <<valueVars, cfgVars, closeVars, pumpVars, agentVars, sendVars>>

\* The agent's and the callers' operations on a candidate.
lifecycle(c) ==
    \/ start_candidate(c)
    \/ close(c)
    \/ relayClose(c)

\* The steps of the candidate's receive pump.
recv_loop(c) ==
    \/ recvInitialized(c)
    \/ recvClosed(c)
    \/ recvErr(c)
    \/ \E k \in Kinds : recvFrom(c, k)
    \/ lockAgent(c)
    \/ handleInbound(c)
    \/ validate(c)
    \/ bufferWrite(c)

\* A candidate from construction to close, with its receive pump.
Next == \E c \in Studied : lifecycle(c) \/ recv_loop(c)

\* A candidate from construction to close, with the sending side:
\* write_to and seen touch nothing the pump reads.
NextSend ==
    \E c \in Studied :
        \/ lifecycle(c)
        \/ \E ok \in BOOLEAN, t \in Times : write_to(c, ok, t)
        \/ \E outbound \in BOOLEAN, t \in Times : seenCall(c, outbound, t)

Spec == Init /\ [][Next]_vars

\* Both candidates have a packet connection; the agent starts them and
\* their receive pumps run in parallel.
PumpsInit ==
    /\ LifecycleInit(Cands)
    /\ conn = [c \in Cands |-> TRUE]
    /\ relay_client = [c \in Cands |-> FALSE]
    /\ initialized_ch = [c \in Cands |-> FALSE]
    /\ cand = [i \in Slots |-> DefaultCandidate]
    /\ res = [op |-> "none"]

PumpsNext ==
    \E c \in Cands :
        \/ start_candidate(c)
        \/ \E k \in Kinds : recvFrom(c, k)
        \/ lockAgent(c)
        \/ handleInbound(c)
        \/ validate(c)
        \/ bufferWrite(c)

PumpsSpec == PumpsInit /\ [][PumpsNext]_vars

SendSpec == Init /\ [][NextSend]_vars

(***************************************************************************)
(* The value side of a candidate: priority and local_preference.           *)
(***************************************************************************)
CandidateTypes ==
    {"Unspecified", "Host", "ServerReflexive", "PeerReflexive", "Relay"}

TcpTypes == {"Unspecified", "Active", "Passive", "SimultaneousOpen"}

\* Values set_component is called with: around the edge of `256 - component`
\* and the largest u16.
Components == {1, 256, 257, 65535}

\* CandidateType::preference.
preference(t) ==
    CASE t = "Host" -> 126
      [] t = "PeerReflexive" -> 110
      [] t = "ServerReflexive" -> 100
      [] OTHER -> 0

\* NetworkType::is_tcp.
is_tcp(nt) == nt \in {"tcp4", "tcp6"}

\* NetworkType::network_short: the transport.
network_short(nt) ==
    CASE nt \in {"udp4", "udp6"} -> "udp"
      [] nt \in {"tcp4", "tcp6"} -> "tcp"
      [] OTHER -> "unspecified"

DEFAULT_LOCAL_PREFERENCE == 65535

direction_pref_hostTable(c) ==
    CASE c.tcp_type = "Active" -> 6
      [] c.tcp_type = "Passive" -> 4
      [] c.tcp_type = "SimultaneousOpen" -> 2
      [] OTHER -> 0

\* The direction-pref of RFC 6544, by candidate type and tcp type.
direction_pref(c) ==
    CASE c.candidate_type \in {"Host", "Relay"} ->
            (CASE c.tcp_type = "Active" -> 6
               [] c.tcp_type = "Passive" -> 4
               [] c.tcp_type = "SimultaneousOpen" -> 2
               [] OTHER -> 0)
      [] c.candidate_type \in {"PeerReflexive", "ServerReflexive"} ->
            (CASE c.tcp_type = "SimultaneousOpen" -> 6
               [] c.tcp_type = "Active" -> 4
               [] c.tcp_type = "Passive" -> 2
               [] OTHER -> 0)
      [] OTHER -> 0

local_preference_byFamily(c) ==
    IF is_tcp(c.network_type)
    THEN (2^13) * direction_pref(c) + 8191
    ELSE IF c.network_type = "udp6" THEN DEFAULT_LOCAL_PREFERENCE - 1
    ELSE DEFAULT_LOCAL_PREFERENCE

\* local_preference(): the value of the u16 expression.
local_preference(c) ==
    IF is_tcp(c.network_type)
    THEN (2^13) * direction_pref(c) + 8191
    ELSE DEFAULT_LOCAL_PREFERENCE

\* A u32 as two 16-bit halves <<high, low>>.
ToU32(n) == <<n \div 65536, n % 65536>>

\* u32 multiplication of a by a factor below 2^16, with its carry out.
Mul32(a, n) ==
    LET lo == a[2] * n
        hi == a[1] * n + lo \div 65536
    IN  [val |-> <<hi % 65536, lo % 65536>>, carry |-> hi >= 65536]

\* u32 addition, with its carry out.
Add32(a, b) ==
    LET lo == a[2] + b[2]
        hi == a[1] + b[1] + lo \div 65536
    IN  [val |-> <<hi % 65536, lo % 65536>>, carry |-> hi >= 65536]

\* u32 subtraction, with its borrow out.
Sub32(a, b) ==
    LET lo == a[2] - b[2]
        hi == a[1] - b[1] - (IF lo < 0 THEN 1 ELSE 0)
    IN  [val |-> <<(hi + 65536) % 65536, (lo + 65536) % 65536>>,
         carry |-> hi < 0]

\* priority(): the override if there is one; else the sum, evaluated in u32.
\* An operation that overflows panics in a build with overflow checks and
\* wraps in a build without.
priority(c, checks) ==
    LET t == Mul32(ToU32(2^24), preference(c.candidate_type))
        l == Mul32(ToU32(2^8), local_preference(c))
        tl == Add32(t.val, l.val)
        d == Sub32(ToU32(256), ToU32(c.component))
        sum == Add32(tl.val, d.val)
        overflow == t.carry \/ l.carry \/ tl.carry \/ d.carry \/ sum.carry
    IN  IF c.priority_override # 0
        THEN [kind |-> "ok", val |-> ToU32(c.priority_override),
              overflow |-> FALSE]
        ELSE IF overflow /\ checks
        THEN [kind |-> "panic", val |-> ToU32(0), overflow |-> TRUE]
        ELSE [kind |-> "ok", val |-> sum.val, overflow |-> overflow]

\* set_component.
set_component(i, v) ==
    /\ cand' = [cand EXCEPT ![i].component = v]
    /\ res' = [op |-> "none"]
    /\ UNCHANGED lifecycleVars

\* priority() called on both candidates, in a build with or without
\* overflow checks.
callPriority(checks) ==
    /\ res' = [op |-> "priority", checks |-> checks,
               val |-> [i \in Slots |-> priority(cand[i], checks)]]
    /\ UNCHANGED <<cand, lifecycleVars>>

\* Candidates as their configuration and type make them for priority().
PriorityCandidates ==
    { [DefaultCandidate EXCEPT !.candidate_type = t, !.network_type = nt,
                               !.tcp_type = tt, !.component = k,
                               !.priority_override = po] :
        t \in CandidateTypes, nt \in {"udp4", "udp6", "tcp4"},
        tt \in TcpTypes, k \in Components, po \in {0, 7} }

PriorityInit ==
    /\ LifecycleInit({})
    /\ cand \in [Slots -> PriorityCandidates]
    /\ res = [op |-> "none"]

PriorityNext ==
    \/ \E i \in Slots, v \in Components : set_component(i, v)
    \/ \E checks \in BOOLEAN : callPriority(checks)

PrioritySpec == PriorityInit /\ [][PriorityNext]_vars

(***************************************************************************)
(* foundation and set_ip.  Strings are sequences of bytes.                 *)
(***************************************************************************)
\* Display of CandidateType.
candidate_type_string(t) ==
    CASE t = "Host" -> <<104, 111, 115, 116>>                    \* host
      [] t = "ServerReflexive" -> <<115, 114, 102, 108, 120>>     \* srflx
      [] t = "PeerReflexive" -> <<112, 114, 102, 108, 120>>       \* prflx
      [] t = "Relay" -> <<114, 101, 108, 97, 121>>                \* relay
      [] OTHER -> <<85, 110, 107, 110, 111, 119, 110, 32, 99, 97, 110,
                    100, 105, 100, 97, 116, 101, 32, 116, 121, 112, 101>>

\* Display of NetworkType.
network_type_string(nt) ==
    CASE nt = "udp4" -> <<117, 100, 112, 52>>
      [] nt = "udp6" -> <<117, 100, 112, 54>>
      [] nt = "tcp4" -> <<116, 99, 112, 52>>
      [] nt = "tcp6" -> <<116, 99, 112, 54>>
      [] OTHER -> <<117, 110, 115, 112, 101, 99, 105, 102, 105, 101, 100>>

\* Bitwise exclusive or of two naturals.
RECURSIVE Xor(_, _)
Xor(a, b) ==
    IF a = 0 THEN b
    ELSE IF b = 0 THEN a
    ELSE 2 * Xor(a \div 2, b \div 2) + ((a + b) % 2)

\* One bit of the reflected CRC-32C (Castagnoli, polynomial 0x82F63B78) on
\* a u32 held as <<high, low>>.
CrcShift(crc) ==
    LET hi == crc[1] \div 2
        lo == crc[2] \div 2 + (crc[1] % 2) * 32768
    IN  IF crc[2] % 2 = 1
        THEN <<Xor(hi, 33526), Xor(lo, 15224)>>
        ELSE <<hi, lo>>

RECURSIVE CrcBits(_, _)
CrcBits(crc, n) ==
    IF n = 0 \/ crc = <<0, 0>> THEN crc ELSE CrcBits(CrcShift(crc), n - 1)

RECURSIVE CrcBytes(_, _, _)
CrcBytes(crc, buf, i) ==
    IF i > Len(buf) \/ crc = <<>> THEN crc
    ELSE CrcBytes(CrcBits(<<crc[1], Xor(crc[2], buf[i])>>, 8), buf, i + 1)

\* Crc::<u32>::new(&CRC_32_ISCSI).checksum(buf).
checksum(buf) ==
    LET crc == CrcBytes(<<65535, 65535>>, buf, 1)
    IN  <<Xor(crc[1], 65535), Xor(crc[2], 65535)>>

\* format!("{}", n) of a u32 held as <<high, low>>: its decimal digits.
RECURSIVE Decimal(_)
Decimal(n) ==
    LET rest == (n[1] % 10) * 65536 + n[2]
        q == <<n[1] \div 10, rest \div 10>>
        digit == <<48 + (rest % 10)>>
    IN  IF q = <<0, 0>> THEN digit ELSE Decimal(q) \o digit

foundation_withoutNetworkType(c) ==
    IF c.foundation_override # <<>>
    THEN c.foundation_override
    ELSE Decimal(checksum(candidate_type_string(c.candidate_type)
                          \o c.address))

\* foundation(): the override if it is not empty, else the checksum of type,
\* address and network type, in decimal.
foundation(c) ==
    IF c.foundation_override # <<>>
    THEN c.foundation_override
    ELSE Decimal(checksum(candidate_type_string(c.candidate_type)
                          \o c.address
                          \o network_type_string(c.network_type)))

\* Addresses a candidate is configured with: two literals and an mDNS name.
Literal == <<49, 46, 49, 46, 49, 46, 49>>                \* 1.1.1.1
Literal2 == <<49, 48, 46, 48, 46, 48, 46, 49>>           \* 10.0.0.1
MdnsName == <<97, 46, 108, 111, 99, 97, 108>>            \* a.local

\* The related address of a candidate of type t: none for a host candidate,
\* the base 9.9.9.9:9 for one derived from it.
RelatedAddresses(t) ==
    IF t = "Host"
    THEN {[present |-> FALSE, address |-> <<>>, port |-> 0]}
    ELSE {[present |-> TRUE, address |-> <<57, 46, 57, 46, 57, 46, 57>>,
           port |-> 9]}

\* The literal addresses with the IP address each parses to.
Parsed == {[address |-> Literal, ip |-> [ip |-> "1.1.1.1", v6 |-> FALSE]],
           [address |-> Literal2, ip |-> [ip |-> "10.0.0.1", v6 |-> FALSE]]}

\* IP addresses given to set_ip, with their family.
IPs == {[ip |-> "1.1.1.1", v6 |-> FALSE], [ip |-> "10.0.0.1", v6 |-> FALSE],
        [ip |-> "fe80::1", v6 |-> TRUE]}

\* determine_network_type: by the configured network and the family of the
\* address; "error" for a network that is neither udp nor tcp.
determine_network_type(network, ip) ==
    CASE network = "udp" -> IF ip.v6 THEN "udp6" ELSE "udp4"
      [] network = "tcp" -> IF ip.v6 THEN "tcp6" ELSE "tcp4"
      [] OTHER -> "error"

\* The candidate after set_ip(ip): network type and resolved address are
\* stored unless the network type cannot be determined.
with_ip(c, ip) ==
    IF determine_network_type(c.network, ip) = "error" THEN c
    ELSE [c EXCEPT !.network_type = determine_network_type(c.network, ip),
                   !.resolved_addr = [ip |-> ip.ip, port |-> c.port]]

\* set_ip, as the agent calls it once it has resolved a candidate's mDNS
\* name.
set_ip(i, ip) ==
    /\ cand[i].address = MdnsName
    /\ cand' = [cand EXCEPT ![i] = with_ip(cand[i], ip)]
    /\ res' = [op |-> "none"]
    /\ UNCHANGED lifecycleVars

\* foundation() called on both candidates.
callFoundation ==
    /\ res' = [op |-> "foundation",
               val |-> [i \in Slots |-> foundation(cand[i])]]
    /\ UNCHANGED <<cand, lifecycleVars>>

\* A candidate as its constructor fills it in, before set_ip.
configured(t, a, n, ra, fo) ==
    [DefaultCandidate EXCEPT !.candidate_type = t, !.component = 1,
                             !.address = a, !.network = n,
                             !.related_address = ra,
                             !.foundation_override = fo]

\* Candidates as constructed for foundation(): one with a literal address
\* has had set_ip called with it, a host candidate with an mDNS name has
\* not.
FoundationCandidates ==
    UNION { { with_ip(configured(t, l.address, n, ra, fo), l.ip) :
                l \in Parsed, n \in {"udp", "tcp"},
                ra \in RelatedAddresses(t), fo \in {<<>>, <<102, 49>>} } :
            t \in {"Host", "ServerReflexive"} }
    \cup { configured("Host", MdnsName, n, ra, fo) :
                n \in {"udp", "tcp"}, ra \in RelatedAddresses("Host"),
                fo \in {<<>>, <<102, 49>>} }

FoundationInit ==
    /\ LifecycleInit({})
    /\ cand \in [Slots -> FoundationCandidates]
    /\ res = [op |-> "none"]

FoundationNext ==
    \/ \E i \in Slots, ip \in IPs : set_ip(i, ip)
    \/ callFoundation

FoundationSpec == FoundationInit /\ [][FoundationNext]_vars

(***************************************************************************)
(* marshal and equal.                                                      *)
(***************************************************************************)
\* NetworkType::network_short as the bytes marshal writes.
network_short_string(nt) ==
    CASE network_short(nt) = "udp" -> <<117, 100, 112>>
      [] network_short(nt) = "tcp" -> <<116, 99, 112>>
      [] OTHER -> <<117, 110, 115, 112, 101, 99, 105, 102, 105, 101, 100>>

\* Display of TcpType.
tcp_type_string(tt) ==
    CASE tt = "Active" -> <<97, 99, 116, 105, 118, 101>>            \* active
      [] tt = "Passive" -> <<112, 97, 115, 115, 105, 118, 101>>     \* passive
      [] tt = "SimultaneousOpen" -> <<115, 111>>                    \* so
      [] OTHER -> <<117, 110, 115, 112, 101, 99, 105, 102, 105, 101, 100>>

\* format!("{}", n) of a u16.
Decimal16(n) == Decimal(ToU32(n))

\* The literal pieces of marshal's format strings.
Sp == <<32>>
Typ == <<116, 121, 112>>
Tcptype == <<116, 99, 112, 116, 121, 112, 101>>
Raddr == <<114, 97, 100, 100, 114>>
Rport == <<114, 112, 111, 114, 116>>

\* The " tcptype <tcp>" part of marshal.
marshal_tcp(c) ==
    IF c.tcp_type # "Unspecified"
    THEN Sp \o Tcptype \o Sp \o tcp_type_string(c.tcp_type)
    ELSE <<>>

\* The " raddr <addr> rport <port>" part of marshal.
marshal_related(c) ==
    IF c.related_address.present
    THEN Sp \o Raddr \o Sp \o c.related_address.address
         \o Sp \o Rport \o Sp \o Decimal16(c.related_address.port)
    ELSE <<>>

\* The first format! of marshal, given the priority.
marshal_head(c, p) ==
    foundation(c) \o Sp \o Decimal16(c.component) \o Sp
    \o network_short_string(c.network_type) \o Sp \o Decimal(p) \o Sp
    \o c.address \o Sp \o Decimal16(c.port) \o Sp \o Typ \o Sp
    \o candidate_type_string(c.candidate_type)

marshal_relatedFirst(c, checks) ==
    LET p == priority(c, checks)
    IN  IF p.kind = "panic" THEN [kind |-> "panic", val |-> <<>>]
        ELSE [kind |-> "ok",
              val |-> marshal_head(c, p.val) \o marshal_related(c)
                      \o marshal_tcp(c)]

\* marshal(): the string, or the panic of priority().
marshal(c, checks) ==
    LET p == priority(c, checks)
    IN  IF p.kind = "panic" THEN [kind |-> "panic", val |-> <<>>]
        ELSE [kind |-> "ok",
              val |-> marshal_head(c, p.val) \o marshal_tcp(c)
                      \o marshal_related(c)]

equal_withoutPort(a, b) ==
    /\ a.network_type = b.network_type
    /\ a.candidate_type = b.candidate_type
    /\ a.address = b.address
    /\ a.tcp_type = b.tcp_type
    /\ a.related_address = b.related_address

\* equal(): the six comparisons.
equal(a, b) ==
    /\ a.network_type = b.network_type
    /\ a.candidate_type = b.candidate_type
    /\ a.address = b.address
    /\ a.port = b.port
    /\ a.tcp_type = b.tcp_type
    /\ a.related_address = b.related_address

\* marshal() called on both candidates, in a build with or without overflow
\* checks.
callMarshal(checks) ==
    /\ res' = [op |-> "marshal", checks |-> checks,
               val |-> [i \in Slots |-> marshal(cand[i], checks)]]
    /\ UNCHANGED <<cand, lifecycleVars>>

\* A candidate of FoundationCandidates with the rest of its configuration.
configuredMore(c, tt, k, po) ==
    [c EXCEPT !.tcp_type = tt, !.component = k, !.port = 9,
              !.priority_override = po]

\* Candidates as constructed for marshal(): a local one has no override, a
\* remote one has the foundation and the priority it was announced with.
MarshalCandidates ==
    { m \in { configuredMore(c, tt, k, po) :
                c \in {f \in FoundationCandidates : f.address # Literal2},
                tt \in {"Unspecified", "Active"}, k \in {1, 257},
                po \in {0, 7} } :
        (m.foundation_override = <<>>) <=> (m.priority_override = 0) }

MarshalInit ==
    /\ LifecycleInit({})
    /\ cand \in [Slots -> MarshalCandidates]
    /\ res = [op |-> "none"]

\* The addresses an mDNS name resolves to.
Resolved == {ip \in IPs : ip.ip # "10.0.0.1"}

MarshalNext ==
    \/ \E i \in Slots, ip \in Resolved : set_ip(i, ip)
    \/ \E checks \in BOOLEAN : callMarshal(checks)

MarshalSpec == MarshalInit /\ [][MarshalNext]_vars

\* Three candidates are compared with each other.
Triple == {1, 2, 3}

\* equal() called on every two of the candidates.
callEqual ==
    /\ res' = [op |-> "equal",
               val |-> [i \in Triple |->
                          [j \in Triple |-> equal(cand[i], cand[j])]]]
    /\ UNCHANGED <<cand, lifecycleVars>>

\* A server-reflexive candidate, the candidates that differ from it in one
\* field, and one that differs in all that a remote announcement sets.
EqualBase ==
    configuredMore(
        with_ip(configured("ServerReflexive", Literal, "tcp",
                           [present |-> TRUE,
                            address |-> <<57, 46, 57, 46, 57, 46, 57>>,
                            port |-> 9], <<>>),
                [ip |-> "1.1.1.1", v6 |-> FALSE]),
        "Active", 1, 0)

EqualCandidates ==
    { EqualBase,
      [EqualBase EXCEPT !.id = "other"],
      [EqualBase EXCEPT !.component = 256],
      [EqualBase EXCEPT !.priority_override = 7],
      [EqualBase EXCEPT !.foundation_override = <<102, 49>>],
      [EqualBase EXCEPT !.id = "remote", !.priority_override = 7,
                        !.foundation_override = <<102, 49>>],
      [EqualBase EXCEPT !.network_type = "tcp6"],
      [EqualBase EXCEPT !.candidate_type = "PeerReflexive"],
      [EqualBase EXCEPT !.address = Literal2],
      [EqualBase EXCEPT !.port = 10],
      [EqualBase EXCEPT !.tcp_type = "Passive"],
      [EqualBase EXCEPT !.related_address.port = 10],
      [EqualBase EXCEPT !.related_address.address = Literal2],
      [EqualBase EXCEPT !.related_address =
            [present |-> FALSE, address |-> <<>>, port |-> 0]] }

EqualInit ==
    /\ LifecycleInit({})
    /\ cand \in [Triple -> EqualCandidates]
    /\ res = [op |-> "none"]

\* Between the comparisons the component and the timestamps of the
\* candidates change, and close() is called.
EqualNext ==
    \/ \E i \in Triple, v \in {1, 256} : set_component(i, v)
    \/ \E c \in Studied, outbound \in BOOLEAN, t \in Times :
          seenCall(c, outbound, t)
    \/ \E c \in Studied : close(c)
    \/ callEqual

EqualSpec == EqualInit /\ [][EqualNext]_vars

(***************************************************************************)
(* The agent's connection and gathering states and their string forms      *)
(* (src/state/state_test.rs).                                              *)
(***************************************************************************)
\* The variants of ConnectionState, by discriminant: Unspecified, New,
\* Checking, Connected, Completed, Failed, Disconnected, Closed.
ConnectionStates == 0..7

\* The variants of GatheringState: Unspecified, New, Gathering, Complete.
GatheringStates == 0..3

connection_state_string_completedAsConnected(v) ==
    CASE v = 1 -> "New"
      [] v = 2 -> "Checking"
      [] v = 3 -> "Connected"
      [] v = 4 -> "Connected"
      [] v = 5 -> "Failed"
      [] v = 6 -> "Disconnected"
      [] v = 7 -> "Closed"
      [] OTHER -> "Unspecified"

\* Display of ConnectionState.
connection_state_string(v) ==
    CASE v = 1 -> "New"
      [] v = 2 -> "Checking"
      [] v = 3 -> "Connected"
      [] v = 4 -> "Completed"
      [] v = 5 -> "Failed"
      [] v = 6 -> "Disconnected"
      [] v = 7 -> "Closed"
      [] OTHER -> "Unspecified"

\* Display of GatheringState.
gathering_state_string(v) ==
    CASE v = 1 -> "new"
      [] v = 2 -> "gathering"
      [] v = 3 -> "complete"
      [] OTHER -> "unspecified"

\* The table of test_connected_state_string: variant and expected string.
connection_tests ==
    << <<0, "Unspecified">>, <<1, "New">>, <<2, "Checking">>,
       <<3, "Connected">>, <<4, "Completed">>, <<5, "Failed">>,
       <<6, "Disconnected">>, <<7, "Closed">> >>

\* The table of test_gathering_state_string.
gathering_tests ==
    << <<0, "unspecified">>, <<1, "new">>, <<2, "gathering">>,
       <<3, "complete">> >>

\* The agent moves to a connection state, or to a gathering state.
update_connection_state(v) ==
    /\ connection_state' = v
    /\ UNCHANGED <<gathering_state, conn, relay_client, initialized_ch,
                   closeVars, pumpVars, agentVars, sendVars, seenVars,
                   valueVars>>

update_gathering_state(v) ==
    /\ gathering_state' = v
    /\ UNCHANGED <<connection_state, conn, relay_client, initialized_ch,
                   closeVars, pumpVars, agentVars, sendVars, seenVars,
                   valueVars>>

\* to_string() of the connection state, and of the gathering state.
connectionToString ==
    /\ res' = [op |-> "ConnectionState", of |-> connection_state,
               val |-> connection_state_string(connection_state)]
    /\ UNCHANGED <<cand, lifecycleVars>>

gatheringToString ==
    /\ res' = [op |-> "GatheringState", of |-> gathering_state,
               val |-> gathering_state_string(gathering_state)]
    /\ UNCHANGED <<cand, lifecycleVars>>

StateNext ==
    \/ \E v \in ConnectionStates : update_connection_state(v)
    \/ \E v \in GatheringStates : update_gathering_state(v)
    \/ connectionToString
    \/ gatheringToString

StateSpec == Init /\ [][StateNext]_vars

(***************************************************************************)
(* Scheduling: tokio's select! polls its ready branches in random order,   *)
(* so a branch that is ready again and again is taken (strong fairness);   *)
(* an await whose future is ready completes (weak fairness).               *)
(***************************************************************************)
Fairness ==
    \A c \in Cands :
        /\ SF_vars(recvClosed(c))
        /\ WF_vars(lockAgent(c))
        /\ WF_vars(handleInbound(c))
        /\ WF_vars(validate(c))
        /\ WF_vars(bufferWrite(c))

FairSpec == Init /\ [][Next]_vars /\ Fairness

(***************************************************************************)
(* Claims about close, the receive pump and write_to.                      *)
(***************************************************************************)
\* The pump locations inside handle_inbound_candidate_msg.
Dispatching == {"stun_lock", "stun_handle", "data_lock", "data_validate",
                "data_write"}

\* The kinds is_message classifies as STUN.
StunKinds == {"stun_ok", "stun_bad"}

\* A pump step of c has just finished dispatching a datagram.
Dispatched(c) == Len(plog'[c]) = Len(plog[c]) + 1

\* The datagram whose dispatch that step finished.
Finished(c) == plog'[c][Len(plog'[c])]

\* C1: the first close() of a candidate (in the order the calls pass the
\* closed_ch mutex) returns Ok, or is on its way to, and every other returns
\* Closed.
C1_FirstCloseOkRestClosed ==
    \A c \in Cands : \A i \in DOMAIN closeRes[c] :
        IF i = 1 THEN closeRes[c][i] \in {"Ok", "Pending"}
        ELSE closeRes[c][i] = "Closed"

\* C2: once every close() call made on a candidate has returned, the TURN
\* client's close has been invoked exactly once if the candidate owns a
\* client, and never if it owns none.
C2_TurnClosedExactlyOnceIffOwned ==
    \A c \in Cands :
        /\ ~relay_client[c] => turnCloses[c] = 0
        /\ turnCloses[c] <= 1
        /\ ( /\ relay_client[c]
             /\ closeRes[c] # <<>>
             /\ \A i \in DOMAIN closeRes[c] : closeRes[c][i] # "Pending" )
           => turnCloses[c] = 1

\* The pump of c was running when close() took the sender.
RunningAtClose(c) ==
    pumpAtClose[c] \in {"init_wait", "select"} \cup Dispatching

\* C3 as stated: a pump that was running when close() was called ends with
\* the Closed error.
C3_PumpEndsWithClosed ==
    \A c \in Cands :
        (RunningAtClose(c) /\ pumpPc[c] = "done") => pumpRes[c] = "Closed"

\* C3, amended: under fair scheduling a pump that was running when close()
\* was called terminates, with the Closed error or with the error of a
\* recv_from that failed first; it does not read on forever.
C3_PumpTerminatesAfterClose ==
    \A c \in Cands :
        RunningAtClose(c) ~>
            (pumpPc[c] = "done" /\ pumpRes[c] \in {"Closed", "Io"})

\* C3 witness: close() came while the pump was writing a datagram to the
\* buffer, and the pump has ended with Closed.
C3_Witness ==
    \E c \in Cands :
        /\ pumpAtClose[c] = "data_write"
        /\ pumpPc[c] = "done"
        /\ pumpRes[c] = "Closed"

\* C4: no send_to is issued on a candidate's packet connection by a write_to
\* made after a close() of the candidate has returned.
C4_NoSendAfterClose == \A c \in Cands : lateSends[c] = 0

\* C5 as stated: a datagram that is not STUN is appended to the delivery
\* buffer exactly when the source validation accepts it, is dropped with the
\* buffer unchanged otherwise, and never reaches the inbound-STUN handler.
C5_DeliveredIffValidated ==
    [][\A c \in Cands :
        (Dispatched(c) /\ Finished(c)[1] \notin StunKinds) =>
            /\ buffer' = IF validate_non_stun_traffic(Finished(c)[1])
                         THEN Append(buffer, <<c, Len(plog'[c])>>)
                         ELSE buffer
            /\ stunHandled' = stunHandled]_vars

\* C5, amended: a datagram that is not STUN is appended to the delivery
\* buffer exactly when the source validation accepts it and the buffer has
\* room; otherwise it is dropped with the buffer unchanged; it never reaches
\* the inbound-STUN handler.
C5_DeliveredIffValidatedAndRoom ==
    [][\A c \in Cands :
        (Dispatched(c) /\ Finished(c)[1] \notin StunKinds) =>
            /\ buffer' = IF /\ validate_non_stun_traffic(Finished(c)[1])
                            /\ Len(buffer) < MaxBuf
                         THEN Append(buffer, <<c, Len(plog'[c])>>)
                         ELSE buffer
            /\ stunHandled' = stunHandled]_vars

\* C5 witness: one pump has had a datagram delivered, one rejected by the
\* validation and one refused by the full buffer.
C5_Witness ==
    \E c \in Cands :
        /\ \E i \in DOMAIN plog[c] : plog[c][i] = <<"data_ok", "delivered">>
        /\ \E i \in DOMAIN plog[c] : plog[c][i] = <<"data_bad", "rejected">>
        /\ \E i \in DOMAIN plog[c] : plog[c][i] = <<"data_ok", "full">>
        /\ buffer # <<>>

\* C6: a datagram classified as STUN never changes the delivery buffer; one
\* that fails to decode is not given to the inbound handler, leaves the
\* agent as it was, and the pump goes on to its next select.
C6_StunNeverSurfaced ==
    [][\A c \in Cands :
        (Dispatched(c) /\ Finished(c)[1] \in StunKinds) =>
            /\ buffer' = buffer
            /\ pumpPc'[c] = "select"
            /\ pumpRes'[c] = pumpRes[c]
            /\ Finished(c)[1] = "stun_bad" =>
                    /\ stunHandled' = stunHandled
                    /\ agent_internal' = agent_internal]_vars

\* C6 witness: a STUN message failed to decode and the pump has dispatched
\* a later datagram; a decodable one was handled.
C6_Witness ==
    \E c \in Cands :
        /\ \E i \in DOMAIN plog[c] :
              plog[c][i] = <<"stun_bad", "undecodable">> /\ i < Len(plog[c])
        /\ stunHandled # <<>>

\* C7 as stated: once a write to the full buffer has failed in a pump, the
\* failure is what the receive path returns.
C7_FullWriteReturned ==
    \A c \in Cands :
        (\E i \in DOMAIN plog[c] : plog[c][i][2] = "full") =>
            pumpRes[c] = "QueueFull"

\* C7, amended: a validated datagram that arrives while the buffer is full
\* fails to be written and the failure stays inside the pump: the buffer is
\* unchanged, recv_loop returns nothing and goes on to its next select.
C7_FullWriteAbsorbed ==
    [][\A c \in Cands :
        (pumpPc[c] = "data_write" /\ Len(buffer) >= MaxBuf /\ cur'[c] = "none") =>
            /\ buffer' = buffer
            /\ pumpPc'[c] = "select"
            /\ pumpRes'[c] = pumpRes[c]
            /\ pumpRes[c] = "none"]_vars

\* C7 witness: a write failed on the full buffer and the pump is at its
\* select again.
C7_Witness ==
    \E c \in Cands :
        /\ plog[c] # <<>>
        /\ plog[c][Len(plog[c])] = <<"data_ok", "full">>
        /\ Len(buffer) = MaxBuf
        /\ pumpPc[c] = "select"

(***************************************************************************)
(* Claims about priority.                                                  *)
(***************************************************************************)
\* The four candidate types of the priority formula.
FormulaTypes == {"Host", "PeerReflexive", "ServerReflexive", "Relay"}

\* C8: for a candidate of one of the four types without a priority
\* override, whatever its local preference and component, priority()
\* evaluates without overflow or underflow to
\* (1<<24)*type_pref + (1<<8)*local_pref + (256 - component).
C8_PriorityFormulaNoOverflow ==
    res.op = "priority" =>
        \A i \in Slots :
            (cand[i].candidate_type \in FormulaTypes
                /\ cand[i].priority_override = 0) =>
                /\ res.val[i].kind = "ok"
                /\ ~res.val[i].overflow
                /\ res.val[i].val =
                      ToU32(16777216 * preference(cand[i].candidate_type)
                            + 256 * local_preference(cand[i])
                            + (256 - cand[i].component))

\* The transport of a candidate: UDP or TCP.
transport(c) == network_short(c.network_type)

\* Two candidates agree on type, transport, tcp type and component.
SameInputs(a, b) ==
    /\ a.candidate_type = b.candidate_type
    /\ transport(a) = transport(b)
    /\ a.tcp_type = b.tcp_type
    /\ a.component = b.component

\* C9 as stated: two candidates that agree on type, transport, tcp type,
\* component and local preference return the same priority.
C9_PriorityOfFiveInputs ==
    ( /\ res.op = "priority"
      /\ SameInputs(cand[1], cand[2])
      /\ local_preference(cand[1]) = local_preference(cand[2]) )
    => res.val[1] = res.val[2]

\* C9, amended: two candidates that agree on type, transport, tcp type and
\* component (hence on local preference) and on the priority override
\* return the same priority, whatever else they differ in.
C9_PriorityOfInputsAndOverride ==
    ( /\ res.op = "priority"
      /\ SameInputs(cand[1], cand[2])
      /\ cand[1].priority_override = cand[2].priority_override )
    => res.val[1] = res.val[2]

\* C9 witness: priority() has returned the same value for two candidates
\* that differ, but not in the inputs or the override.
C9_Witness ==
    /\ res.op = "priority"
    /\ SameInputs(cand[1], cand[2])
    /\ cand[1].priority_override = 0
    /\ cand[2].priority_override = 0
    /\ cand[1] # cand[2]
    /\ res.val[1].kind = "ok"
    /\ res.val[1] = res.val[2]

(***************************************************************************)
(* Claims about foundation.                                                *)
(***************************************************************************)
\* The base address of a candidate: its related address if it has one, its
\* own address if it is a host candidate.
base_address(c) ==
    IF c.related_address.present THEN c.related_address.address
    ELSE c.address

\* C10 as stated: two candidates with the same type, base address and
\* transport (and no foundation override) have the same foundation.
C10_SameFoundationByTransport ==
    ( /\ res.op = "foundation"
      /\ cand[1].foundation_override = <<>>
      /\ cand[2].foundation_override = <<>>
      /\ cand[1].candidate_type = cand[2].candidate_type
      /\ base_address(cand[1]) = base_address(cand[2])
      /\ transport(cand[1]) = transport(cand[2]) )
    => res.val[1] = res.val[2]

\* C10, amended: a non-empty foundation override is returned verbatim;
\* without one, foundation() is the decimal rendering of the CRC-32C of
\* type string, the candidate's own address string and network-type string
\* (transport and IP family) in this order, so candidates with the same
\* type, own address and network type have the same foundation.
C10_FoundationIsChecksumOrOverride ==
    res.op = "foundation" =>
        /\ \A i \in Slots :
              res.val[i] =
                 IF cand[i].foundation_override # <<>>
                 THEN cand[i].foundation_override
                 ELSE Decimal(checksum(
                         candidate_type_string(cand[i].candidate_type)
                         \o cand[i].address
                         \o network_type_string(cand[i].network_type)))
        /\ ( /\ cand[1].foundation_override = <<>>
             /\ cand[2].foundation_override = <<>>
             /\ cand[1].candidate_type = cand[2].candidate_type
             /\ cand[1].address = cand[2].address
             /\ cand[1].network_type = cand[2].network_type )
           => res.val[1] = res.val[2]

\* C10 witness: the host candidate at 1.1.1.1 over UDP/IPv4 has the
\* foundation 574255262, next to a candidate whose override "f1" was
\* returned.
C10_Witness ==
    /\ res.op = "foundation"
    /\ cand[1].candidate_type = "Host"
    /\ cand[1].address = Literal
    /\ cand[1].network_type = "udp4"
    /\ cand[1].foundation_override = <<>>
    /\ res.val[1] = <<53, 55, 52, 50, 53, 53, 50, 54, 50>>
    /\ cand[2].foundation_override = <<102, 49>>
    /\ res.val[2] = <<102, 49>>

(***************************************************************************)
(* Claims about marshal and equal.                                         *)
(***************************************************************************)
\* C11: the string marshal returns determines every field equal compares:
\* two candidates with the same marshal string are equal (so no parser can
\* fail to return a candidate equal to the one marshalled).
C11_MarshalDeterminesEqualFields ==
    ( /\ res.op = "marshal"
      /\ res.val[1].kind = "ok"
      /\ res.val[1] = res.val[2] )
    => equal(cand[1], cand[2])

\* The tokens of a string: its pieces between single spaces.
RECURSIVE SplitFrom(_, _, _, _)
SplitFrom(str, i, token, done) ==
    IF i > Len(str) \/ Len(token) < 0 \/ Len(done) < 0
    THEN Append(done, token)
    ELSE IF str[i] = 32
    THEN SplitFrom(str, i + 1, <<>>, Append(done, token))
    ELSE SplitFrom(str, i + 1, Append(token, str[i]), done)

Split(str) == SplitFrom(str, 1, <<>>, <<>>)

\* The positions of a token in a sequence of tokens.
At(tokens, t) == {k \in DOMAIN tokens : tokens[k] = t}

\* C12: marshal() emits foundation, component, transport, priority, address,
\* port, "typ", type in this order, with the values foundation() and
\* priority() return; "tcptype <tcp>" follows exactly when tcp_type is not
\* Unspecified, then "raddr <addr> rport <port>" exactly when the candidate
\* has a related address; marshal() fails only where priority() does.
C12_MarshalTokens ==
    res.op = "marshal" =>
        \A i \in Slots :
            LET c == cand[i]
                tk == Split(res.val[i].val)
                tcp == IF c.tcp_type # "Unspecified" THEN 2 ELSE 0
                rel == IF c.related_address.present THEN 4 ELSE 0
            IN  IF priority(c, res.checks).kind = "panic"
                THEN res.val[i].kind = "panic"
                ELSE /\ res.val[i].kind = "ok"
                     /\ Len(tk) = 8 + tcp + rel
                     /\ tk[1] = foundation(c)
                     /\ tk[2] = Decimal16(c.component)
                     /\ tk[3] = network_short_string(c.network_type)
                     /\ tk[4] = Decimal(priority(c, res.checks).val)
                     /\ tk[5] = c.address
                     /\ tk[6] = Decimal16(c.port)
                     /\ tk[7] = Typ
                     /\ tk[8] = candidate_type_string(c.candidate_type)
                     /\ At(tk, Tcptype) = IF tcp = 2 THEN {9} ELSE {}
                     /\ tcp = 2 => tk[10] = tcp_type_string(c.tcp_type)
                     /\ At(tk, Raddr) = IF rel = 4 THEN {9 + tcp} ELSE {}
                     /\ At(tk, Rport) = IF rel = 4 THEN {11 + tcp} ELSE {}
                     /\ rel = 4 =>
                          /\ tk[10 + tcp] = c.related_address.address
                          /\ tk[12 + tcp] =
                                Decimal16(c.related_address.port)

\* C12 witness: a remote server-reflexive TCP candidate has marshalled to
\* "f1 1 tcp 7 1.1.1.1 9 typ srflx tcptype active raddr 9.9.9.9 rport 9",
\* next to a local host UDP candidate whose string has the eight tokens
\* only.
C12_Witness ==
    /\ res.op = "marshal"
    /\ res.val[1].kind = "ok"
    /\ res.val[1].val =
         <<102, 49, 32, 49, 32, 116, 99, 112, 32, 55, 32, 49, 46, 49, 46,
           49, 46, 49, 32, 57, 32, 116, 121, 112, 32, 115, 114, 102, 108,
           120, 32, 116, 99, 112, 116, 121, 112, 101, 32, 97, 99, 116, 105,
           118, 101, 32, 114, 97, 100, 100, 114, 32, 57, 46, 57, 46, 57,
           46, 57, 32, 114, 112, 111, 114, 116, 32, 57>>
    /\ res.val[2].kind = "ok"
    /\ cand[2].candidate_type = "Host"
    /\ cand[2].network_type = "udp4"
    /\ cand[2].foundation_override = <<>>
    /\ Len(Split(res.val[2].val)) = 8

\* The six fields equal is specified to compare.
SixFields(c) ==
    <<c.network_type, c.candidate_type, c.address, c.port, c.tcp_type,
      c.related_address>>

\* C13: equal(a, b) is true exactly when a and b agree on network type,
\* type, address, port, tcp type and related address, whatever their ids,
\* components, priorities, foundations and timestamps; it is reflexive,
\* symmetric and transitive.
C13_EqualIsSixFieldEquality ==
    res.op = "equal" =>
        /\ \A i, j \in Triple :
              res.val[i][j] = (SixFields(cand[i]) = SixFields(cand[j]))
        /\ \A i \in Triple : res.val[i][i]
        /\ \A i, j \in Triple : res.val[i][j] => res.val[j][i]
        /\ \A i, j, k \in Triple :
              (res.val[i][j] /\ res.val[j][k]) => res.val[i][k]

\* C13 witness: of three candidates with different ids, components,
\* overrides and timestamps, after a close(), the first two are equal and
\* the third, on another port, is equal to neither.
C13_Witness ==
    /\ res.op = "equal"
    /\ cand[1].id # cand[2].id
    /\ cand[1].component # cand[2].component
    /\ cand[1].priority_override # cand[2].priority_override
    /\ cand[1].foundation_override # cand[2].foundation_override
    /\ cand[3].port # cand[1].port
    /\ last_sent["c1"] # 0
    /\ closeRes["c1"] # <<>>
    /\ res.val[1][2] /\ res.val[2][1]
    /\ ~res.val[1][3] /\ ~res.val[3][2]

(***************************************************************************)
(* Claims about local_preference.                                          *)
(***************************************************************************)
\* The direction-pref the claim tabulates.
TabulatedDirection(t, tt) ==
    IF t \in {"Host", "Relay"}
    THEN (CASE tt = "Active" -> 6 [] tt = "Passive" -> 4 [] OTHER -> 2)
    ELSE (CASE tt = "SimultaneousOpen" -> 6 [] tt = "Active" -> 4
            [] OTHER -> 2)

\* u32 a is below u32 b.
Less32(a, b) == a[1] < b[1] \/ (a[1] = b[1] /\ a[2] < b[2])

\* A UDP candidate in slot 1 and a TCP candidate in slot 2 of the same type
\* and component.
UdpBesideTcp ==
    /\ res.op = "priority"
    /\ ~is_tcp(cand[1].network_type)
    /\ is_tcp(cand[2].network_type)
    /\ cand[1].candidate_type = cand[2].candidate_type
    /\ cand[1].component = cand[2].component

\* The local preferences are the tabulated ones and fit in 16 bits.
LocalPreferenceTabulated ==
    \A i \in Slots :
        /\ local_preference(cand[i]) < 65536
        /\ ~is_tcp(cand[i].network_type) =>
              local_preference(cand[i]) = 65535
        /\ ( /\ is_tcp(cand[i].network_type)
             /\ cand[i].candidate_type \in FormulaTypes
             /\ cand[i].tcp_type # "Unspecified" )
           => local_preference(cand[i]) =
                 8192 * TabulatedDirection(cand[i].candidate_type,
                                           cand[i].tcp_type) + 8191

\* C14 as stated: the local preference of a TCP candidate is
\* (1<<13)*direction_pref + 8191 with the tabulated direction-pref and fits
\* in 16 bits, that of a UDP candidate is 65535, and for equal type and
\* component every UDP candidate has a strictly higher priority than every
\* TCP candidate (where priority() returns one).
C14_UdpAboveTcp ==
    /\ LocalPreferenceTabulated
    /\ ( /\ UdpBesideTcp
         /\ res.val[1].kind = "ok"
         /\ res.val[2].kind = "ok" )
       => Less32(res.val[2].val, res.val[1].val)

\* C14, amended: the local preferences are as stated; for equal type and
\* component and no priority override on either side, the UDP candidate's
\* priority is strictly higher than the TCP candidate's, unless both calls
\* panic on the underflow of 256 - component.
C14_UdpAboveTcpWithoutOverride ==
    /\ LocalPreferenceTabulated
    /\ ( /\ UdpBesideTcp
         /\ cand[1].priority_override = 0
         /\ cand[2].priority_override = 0 )
       => IF res.checks /\ cand[1].component > 256
          THEN res.val[1].kind = "panic" /\ res.val[2].kind = "panic"
          ELSE /\ res.val[1].kind = "ok"
               /\ res.val[2].kind = "ok"
               /\ Less32(res.val[2].val, res.val[1].val)

\* C14 witness: a host UDP candidate beside a host TCP candidate of the
\* strongest direction, both of component 1: local preferences 65535 and
\* 57343, priorities 2130706431 and 2128609279.
C14_Witness ==
    /\ UdpBesideTcp
    /\ cand[1].candidate_type = "Host"
    /\ cand[2].tcp_type = "Active"
    /\ cand[1].component = 1
    /\ cand[1].priority_override = 0
    /\ cand[2].priority_override = 0
    /\ local_preference(cand[2]) = 57343
    /\ res.val[1].val = <<32511, 65535>>
    /\ res.val[2].val = <<32479, 65535>>

(***************************************************************************)
(* Claims about seen and write_to.                                         *)
(***************************************************************************)
\* C15: seen(true) stores the time in last_sent and leaves last_received as
\* it was, seen(false) the other way round; neither changes any other field
\* of a candidate (its value fields, connection, close channel).
C15_SeenTouchesOneStamp ==
    [][\A c \in Cands, outbound \in BOOLEAN, t \in Times :
        seenCall(c, outbound, t) =>
            /\ IF outbound
               THEN /\ last_sent' = [last_sent EXCEPT ![c] = t]
                    /\ last_received' = last_received
               ELSE /\ last_received' = [last_received EXCEPT ![c] = t]
                    /\ last_sent' = last_sent
            /\ cand' = cand
            /\ closed_ch' = closed_ch
            /\ closeRes' = closeRes
            /\ conn' = conn]_vars

\* C15 witness: after seen(true) and seen(false) at different times, and no
\* write_to, the two timestamps of a started candidate differ.
C15_Witness ==
    \E c \in Cands :
        /\ writes[c] = 0
        /\ started[c]
        /\ last_sent[c] = 1
        /\ last_received[c] = 0
        /\ closeRes[c] # <<>>

\* C20: write_to stores the time in last_sent exactly when it returns Ok: a
\* failed send_to is returned and leaves both timestamps; without a packet
\* connection nothing is sent, Ok(0) is returned and last_sent is set;
\* last_received never changes.
C20_WriteToStampsOnOk ==
    [][\A c \in Cands, ok \in BOOLEAN, t \in Times :
        write_to(c, ok, t) =>
            /\ last_received' = last_received
            /\ res'.result = "Ok" =>
                  last_sent' = [last_sent EXCEPT ![c] = t]
            /\ res'.result = "Err" => last_sent' = last_sent
            /\ (conn[c] /\ ~ok) => res'.result = "Err"
            /\ ~conn[c] =>
                  /\ sends' = sends
                  /\ res'.result = "Ok"
                  /\ res'.n = 0
                  /\ last_sent' = [last_sent EXCEPT ![c] = t]]_vars

\* C20 witness: a write_to on a candidate with a packet connection has
\* failed and left last_sent at 0 although the time was not 0.
C20_Witness ==
    \E c \in Cands :
        /\ conn[c]
        /\ writes[c] = 1
        /\ sends[c] = 1
        /\ res.op = "write_to"
        /\ res.result = "Err"
        /\ last_sent[c] = 0
        /\ last_received[c] = 1

(***************************************************************************)
(* Claims about the string forms of the states.                            *)
(***************************************************************************)
\* The expectation a test table holds for a variant.
Expected(tests, v) ==
    {tests[k][2] : k \in {n \in DOMAIN tests : tests[n][1] = v}}

\* C16: the string form of every ConnectionState variant is the name the
\* test expects (Unspecified, New, Checking, Connected, Completed, Failed,
\* Disconnected, Closed), that of every GatheringState variant the lowercase
\* name the test expects, and within each enum distinct variants render to
\* distinct strings.
C16_StateStrings ==
    /\ res.op = "ConnectionState" => Expected(connection_tests, res.of) = {res.val}
    /\ res.op = "GatheringState" => Expected(gathering_tests, res.of) = {res.val}
    /\ \A a, b \in ConnectionStates :
          a # b => connection_state_string(a) # connection_state_string(b)
    /\ \A a, b \in GatheringStates :
          a # b => gathering_state_string(a) # gathering_state_string(b)

\* C16 witness: the Completed connection state has rendered as "Completed"
\* while the agent is in the Complete gathering state.
C16_Witness ==
    /\ res.op = "ConnectionState"
    /\ res.of = 4
    /\ res.val = "Completed"
    /\ gathering_state = 3

(***************************************************************************)
(* Claims about receive pumps running in parallel.                         *)
(***************************************************************************)
\* The pump locations inside the inbound-STUN handling, the source
\* validation and the delivery-buffer write.
InsideAgent == {"stun_handle", "data_validate", "data_write"}

\* C17: at every instant at most one pump is inside the agent's inbound-STUN
\* handling, source validation or delivery-buffer write.
C17_OnePumpInsideAgent ==
    \A c, d \in Cands :
        (pumpPc[c] \in InsideAgent /\ pumpPc[d] \in InsideAgent) => c = d

\* C17 witness: one pump is writing to the delivery buffer while the other,
\* holding a STUN message, waits for the agent.
C17_Witness ==
    \E c, d \in Cands :
        /\ pumpPc[c] = "data_write"
        /\ pumpPc[d] = "stun_lock"
        /\ stunHandled # <<>>

\* The arrival numbers, in order, of the datagrams of pump c that are
\* logged with kind k or outcome k.
Logged(c, k) ==
    LET Is(i) == plog[c][i][1] = k \/ plog[c][i][2] = k
    IN  SelectSeq([i \in 1..Len(plog[c]) |-> i], Is)

\* The entries of pump c in a sequence of the agent, in order.
Of(c, applied) ==
    LET Is(e) == e[1] = c
    IN  SelectSeq(applied, Is)

\* The entries <<c, n>> for the arrival numbers n of ns, in order.
Tagged(c, ns) == [k \in 1..Len(ns) |-> <<c, ns[k]>>]

C19_NoLockAcrossSuspension ==
    \A c \in Cands : pumpPc[c] \in InsideAgent => agent_internal # c

\* C19, amended: a pump holds the agent lock exactly while it is inside the
\* inbound-STUN handler, the source validation or the delivery-buffer
\* write, suspended there or not; it holds no lock while it waits in
\* recv_from or for the lock, so it stalls only pumps that have a datagram
\* to dispatch.
C19_LockHeldExactlyInsideAgent ==
    \A c \in Cands : (agent_internal = c) <=> (pumpPc[c] \in InsideAgent)

\* C19 witness: one pump is suspended in the inbound-STUN handler with the
\* lock, a second waits for the lock with a payload.
C19_Witness ==
    \E c, d \in Cands :
        /\ pumpPc[c] = "stun_handle"
        /\ agent_internal = c
        /\ pumpPc[d] = "data_lock"
        /\ cur[d] = "data_ok"

====
